---------------------------- MODULE Spec2Model ----------------------------
(***************************************************************************)
(* Model of sublime-worksheet's Windows process layer                      *)
(* (src/repl/winpexpect.py) and of the worksheet driver (src/worksheet.py).*)
(*                                                                         *)
(* The specifications of the module:                                       *)
(*   SpecTok   split_command_line run item by item over a command line,    *)
(*             either a raw string or join_command_line(argv);             *)
(*   SpecWhich which() probing its candidates one by one;                  *)
(*   Spec      one spawned winspawn object: the child process, the         *)
(*             _child_reader thread and the calling thread;                *)
(*   SpecLive  Spec with the reader thread scheduled fairly;               *)
(*   SpecRead  Spec with a caller that only reads;                         *)
(*   SpecLog   SpecRead with log sinks attached to the object;             *)
(*   SpecSheet one run of WorksheetEvalCommand over a view.                *)
(***************************************************************************)
EXTENDS Integers, Sequences, FiniteSets, TLC

VARIABLES
    \* ---- split_command_line ----
    cmdline,      \* the string being split, a sequence of characters
    argv,         \* the argument vector cmdline was joined from (round trip)
    joined,       \* TRUE when cmdline = join_command_line(argv)
    pos,          \* index of the next item of itertools.chain(cmdline, ['EOI'])
    state,        \* the namedtuple `state`: current, previous, escape_count, argument
    result,       \* the list `result`
    splitOut,     \* "running", "returned" or "ValueError"
    \* ---- the child process, as the operating system has it ----
    output,       \* the bytes the child's program writes before it exits
    unwritten,    \* the bytes of output the child has not written yet
    pipe,         \* bytes written to the stdout pipe and not yet read from it
    status,       \* what popen.poll() returns: None while running, else the exit status
    \* ---- the winspawn object ----
    terminated, exitstatus, closed, child_fd, flag_eof,
    stdout_handle,        \* "handle", or "None" once kill() or wait() dropped it
    child_output_queue,   \* the Queue, oldest chunk first
    \* ---- the _child_reader thread ----
    readerPc,     \* "top", "read" (blocked in read(1)), "put", "done", "unstarted"
    data,         \* the chunk read(1) returned, before q.put
    \* ---- the calling thread ----
    op,           \* the method being called, or called last
    pc,           \* where the calling thread is inside it; "idle" between calls
    size,         \* read_nonblocking's size argument
    buf,          \* read_nonblocking's local s
    outcome,      \* how the last call ended: "return" or the exception raised
    retval,       \* what it returned
    \* ---- history ----
    pushed,       \* the chunks q.put has been called with, in order
    received,     \* the bytes successful read_nonblocking calls have returned, in order
    \* ---- the log sinks of the object ----
    logfile,      \* "None", or "sink" when a file object is attached
    logfile_read, \* the same for the sink of what is read
    \* ---- which ----
    path,         \* os.environ 'Path' split at os.pathsep
    pathext,      \* os.environ 'Pathext' split at os.pathsep
    executable,   \* the file names os.access(fname, os.X_OK) is true of
    dir,          \* position of the outer loop in chain([''], path), from 0
    ext,          \* position of the inner loop in chain([''], pathext), from 0
    probed,       \* the file names os.access has been asked about, in order
    fname,        \* the local fname, as <<directory, extension>>
    whichOut,     \* "running", "found" (fname is returned) or "None"
    \* ---- one run of WorksheetEvalCommand ----
    view,         \* the characters of the view's buffer
    repl,         \* self.repl: "unset", "open" or "closed"
    threads,      \* the ReplThreads created, in order of creation
    timer,        \* the call sublime.set_timeout holds: <<thread, next_start>>, or <<>>
    view_status,  \* the message set_status left
    sheetPc,      \* "unrun", "running", "done", or the exception that ended the run
    inserted,     \* how many results have been inserted into the view
    cleanups      \* how many times cleanup() has been called

tokVars == <<cmdline, argv, joined, pos, state, result, splitOut>>

childVars == <<output, unwritten, pipe, status>>

objVars == <<terminated, exitstatus, closed, child_fd, flag_eof, stdout_handle>>

readerVars == <<readerPc, data>>

callerVars == <<op, pc, size, buf, outcome, retval>>

procVars == <<childVars, objVars, child_output_queue, readerVars, callerVars,
              pushed, received>>

logVars == <<logfile, logfile_read>>

whichVars == <<path, pathext, executable, dir, ext, probed, fname, whichOut>>

sheetVars == <<view, repl, threads, timer, view_status, sheetPc, inserted,
               cleanups>>

vars == <<tokVars, procVars, logVars, whichVars, sheetVars>>

-----------------------------------------------------------------------------
(* Bounds *)

\* longest raw command line, and largest weight (characters plus one per
\* element) of an argument vector
MaxLen == 5

\* most bytes a child writes
MaxOut == 2

\* largest size argument of read_nonblocking
MaxSize == 2

-----------------------------------------------------------------------------
(* split_command_line, src/repl/winpexpect.py:23-80 *)

s_free == 0
s_in_quotes == 1
s_in_escape == 2

QUOTE == "\""
BACKSLASH == "\\"
SPACE == " "
TAB == "\t"
EOI == "EOI"

\* characters a raw command line is drawn from
CmdChars == {"a", SPACE, TAB, QUOTE, BACKSLASH}
\* characters an argument of a vector is drawn from
ArgChars == {"a", SPACE, QUOTE, BACKSLASH}

Strings(chars, n) == UNION {[1..k -> chars] : k \in 0..n}

RECURSIVE Vectors(_)
Vectors(w) ==
    IF w <= 0 THEN {<<>>}
    ELSE {<<>>} \cup
         UNION {{<<e>> \o v : v \in Vectors(w - Len(e) - 1)} : e \in Strings(ArgChars, w - 1)}

\* n * '\\'
Backslashes(n) == [i \in 1..n |-> BACKSLASH]

\* the text an item adds when it is appended to state.argument: the end
\* marker is the three-character string 'EOI'
Text(c) == IF c = EOI THEN <<"E", "O", "I">> ELSE <<c>>

\* ''.join(pieces)
RECURSIVE Concat(_)
Concat(pieces) ==
    IF pieces = <<>> THEN <<>> ELSE Head(pieces) \o Concat(Tail(pieces))

\* item number i of itertools.chain(cmdline, ['EOI'])
Item(s, i) == IF i <= Len(s) THEN s[i] ELSE EOI

\* nbs without the division: every backslash of the run is emitted
nbs_no_halving(escape_count) == escape_count

\* divmod(state.escape_count, 2)
nbs(escape_count) == escape_count \div 2
escaped_delim(escape_count) == escape_count % 2

\* the condition under which whitespace or the end marker emits an argument
emits(st) == st.argument # <<>> \/ st.previous # s_free

\* one iteration of the for loop on item c: the new <<state, result>>
Iterate(st, res, c) ==
    IF st.current = s_free THEN
        IF c = QUOTE THEN
            <<[st EXCEPT !.current = s_in_quotes, !.previous = s_free], res>>
        ELSE IF c = BACKSLASH THEN
            <<[st EXCEPT !.current = s_in_escape, !.previous = s_free,
                         !.escape_count = 1], res>>
        ELSE IF c \in {SPACE, TAB, EOI} THEN
            IF emits(st)
            THEN <<[st EXCEPT !.argument = <<>>], Append(res, Concat(st.argument))>>
            ELSE <<st, res>>
        ELSE <<[st EXCEPT !.argument = Append(@, Text(c))], res>>
    ELSE IF st.current = s_in_quotes THEN
        IF c = QUOTE THEN
            <<[st EXCEPT !.current = s_free, !.previous = s_in_quotes], res>>
        ELSE IF c = BACKSLASH THEN
            <<[st EXCEPT !.current = s_in_escape, !.previous = s_in_quotes,
                         !.escape_count = 1], res>>
        ELSE <<[st EXCEPT !.argument = Append(@, Text(c))], res>>
    ELSE \* s_in_escape
        IF c = BACKSLASH THEN
            <<[st EXCEPT !.escape_count = @ + 1], res>>
        ELSE IF c = QUOTE THEN
            IF escaped_delim(st.escape_count) # 0 THEN
                <<[st EXCEPT !.argument = @ \o <<Backslashes(nbs(st.escape_count)), <<QUOTE>>>>,
                             !.current = st.previous,
                             !.previous = s_in_escape], res>>
            ELSE
                <<[st EXCEPT !.argument = Append(@, Backslashes(nbs(st.escape_count))),
                             !.current = IF st.previous = s_in_quotes
                                         THEN s_free ELSE s_in_quotes,
                             !.previous = s_in_escape], res>>
        ELSE
            <<[st EXCEPT !.argument = @ \o <<Backslashes(st.escape_count), Text(c)>>,
                         !.current = st.previous,
                         !.previous = s_in_escape], res>>

\* the state before the loop
state0 == [current |-> s_free, previous |-> s_free, escape_count |-> 0,
           argument |-> <<>>]

-----------------------------------------------------------------------------
(* join_command_line = subprocess.list2cmdline, src/repl/winpexpect.py:82 *)

\* the characters list2cmdline emits for one argument, from character i on,
\* with bs_buf holding bs pending backslashes
RECURSIVE JoinArg(_, _, _, _)
JoinArg(arg, i, bs, needquote) ==
    IF i > Len(arg) THEN
        Backslashes(bs) \o (IF needquote THEN Backslashes(bs) \o <<QUOTE>> ELSE <<>>)
    ELSE IF arg[i] = BACKSLASH THEN JoinArg(arg, i + 1, bs + 1, needquote)
    ELSE IF arg[i] = QUOTE THEN
        Backslashes(2 * bs) \o <<BACKSLASH, QUOTE>> \o JoinArg(arg, i + 1, 0, needquote)
    ELSE Backslashes(bs) \o <<arg[i]>> \o JoinArg(arg, i + 1, 0, needquote)

needquote(arg) == (\E i \in 1..Len(arg) : arg[i] \in {SPACE, TAB}) \/ arg = <<>>

RECURSIVE list2cmdline(_, _)
list2cmdline(seq, acc) ==
    IF seq = <<>> THEN acc
    ELSE LET arg == Head(seq)
             nq == needquote(arg)
         IN list2cmdline(Tail(seq),
                acc \o (IF acc # <<>> THEN <<SPACE>> ELSE <<>>)
                    \o (IF nq THEN <<QUOTE>> ELSE <<>>)
                    \o JoinArg(arg, 1, 0, nq))

join_command_line(v) == list2cmdline(v, <<>>)

-----------------------------------------------------------------------------
(* winspawn, src/repl/winpexpect.py:97-287 *)

\* Python's None, for popen.poll() and self.exitstatus
None == -1

\* exit statuses a process can end with
ExitStatuses == {0, 1}

\* popen.stdin.fileno()
StdinFileno == 3

\* no log sink is attached: the default of __init__ (line 101)
NoLogs == logfile = "None" /\ logfile_read = "None"

\* which() has not been called
WhichUnrun ==
    /\ path = <<"">> /\ pathext = <<".exe">> /\ executable = {<<"", ".exe">>}
    /\ dir = 0 /\ ext = 0 /\ probed = <<>> /\ fname = <<"", "">>
    /\ whichOut = "running"

\* no WorksheetEvalCommand has run on the view
SheetUnrun ==
    /\ view = <<>> /\ repl = "unset" /\ threads = <<>> /\ timer = <<>>
    /\ view_status = "" /\ sheetPc = "unrun" /\ inserted = 0 /\ cleanups = 0

\* which('a') has returned 'a.exe', found in the current directory
WhichReturned ==
    /\ path = <<"">> /\ pathext = <<".exe">> /\ executable = {<<"", ".exe">>}
    /\ dir = 0 /\ ext = 1 /\ probed = << <<"", "">>, <<"", ".exe">> >>
    /\ fname = <<"", ".exe">> /\ whichOut = "found"

\* the object before _spawn has run (split_command_line runs first, line 115)
Unspawned ==
    /\ output = <<>> /\ unwritten = <<>> /\ pipe = <<>> /\ status = None
    /\ terminated = FALSE /\ exitstatus = None /\ closed = FALSE
    /\ child_fd = -1 /\ flag_eof = FALSE /\ stdout_handle = "None"
    /\ child_output_queue = <<>>
    /\ readerPc = "unstarted" /\ data = <<>>
    /\ op = "none" /\ pc = "unspawned" /\ size = 1 /\ buf = <<>>
    /\ outcome = "none" /\ retval = "None"
    /\ pushed = <<>> /\ received = <<>>

\* the state _spawn leaves (lines 136-157): the child runs, the queue is
\* empty, the reader thread is started
ProcInit ==
    /\ \E n \in 0..MaxOut : output = [i \in 1..n |-> i]
    /\ unwritten = output
    /\ pipe = <<>>
    /\ status = None
    /\ terminated = FALSE /\ exitstatus = None /\ closed = FALSE
    /\ child_fd = StdinFileno /\ flag_eof = FALSE /\ stdout_handle = "handle"
    /\ child_output_queue = <<>>
    /\ readerPc = "top" /\ data = <<>>
    /\ op = "none" /\ pc = "idle" /\ size = 1 /\ buf = <<>>
    /\ outcome = "none" /\ retval = "None"
    /\ pushed = <<>> /\ received = <<>>

\* the command line of the spawned child has been split: the state
\* split_command_line('a') ends in
TokDone ==
    /\ cmdline = <<"a">> /\ argv = <<>> /\ joined = FALSE /\ pos = 3
    /\ state = state0 /\ result = <<<<"a">>>> /\ splitOut = "returned"

Init == TokDone /\ WhichReturned /\ ProcInit /\ NoLogs /\ SheetUnrun

---- (* the child process *)

\* the child writes its next byte to its standard output
ChildWrite ==
    /\ status = None
    /\ unwritten # <<>>
    /\ pipe' = Append(pipe, Head(unwritten))
    /\ unwritten' = Tail(unwritten)
    /\ UNCHANGED <<output, status, objVars, child_output_queue, readerVars,
                   callerVars, pushed, received, tokVars,
                   logVars, whichVars, sheetVars>>

\* the child has written all its output and exits
ChildExit ==
    /\ status = None
    /\ unwritten = <<>>
    /\ \E e \in ExitStatuses : status' = e
    /\ UNCHANGED <<output, unwritten, pipe, objVars, child_output_queue,
                   readerVars, callerVars, pushed, received, tokVars,
                   logVars, whichVars, sheetVars>>

---- (* _child_reader, lines 159-167 *)

\* a reader that keeps the handle it was started with and never sees it
\* dropped
ReaderTop_ignores_drop ==
    /\ readerPc = "top"
    /\ readerPc' = "read"
    /\ UNCHANGED <<childVars, objVars, child_output_queue, data, callerVars,
                   pushed, received, tokVars,
                   logVars, whichVars, sheetVars>>

\* line 162: evaluate self.stdout_handle.read; a dropped handle (None) raises
\* AttributeError, which the bare except turns into a break
ReaderTop ==
    /\ readerPc = "top"
    /\ readerPc' = IF stdout_handle = "None" THEN "done" ELSE "read"
    /\ UNCHANGED <<childVars, objVars, child_output_queue, data, callerVars,
                   pushed, received, tokVars,
                   logVars, whichVars, sheetVars>>

\* line 162: read(1) returns one byte
ReaderRead ==
    /\ readerPc = "read"
    /\ pipe # <<>>
    /\ data' = <<Head(pipe)>>
    /\ pipe' = Tail(pipe)
    /\ readerPc' = "put"
    /\ UNCHANGED <<output, unwritten, status, objVars, child_output_queue,
                   callerVars, pushed, received, tokVars,
                   logVars, whichVars, sheetVars>>

\* lines 162-164: the pipe is empty and the child has gone: read(1) returns
\* b'' and the loop breaks
ReaderEof ==
    /\ readerPc = "read"
    /\ pipe = <<>>
    /\ status # None
    /\ readerPc' = "done"
    /\ UNCHANGED <<childVars, objVars, child_output_queue, data, callerVars,
                   pushed, received, tokVars,
                   logVars, whichVars, sheetVars>>

\* a put that inserts at the head of the queue
put_front(q, chunk) == <<chunk>> \o q

\* q.put(data)
put(q, chunk) == Append(q, chunk)

\* line 165
ReaderPut ==
    /\ readerPc = "put"
    /\ child_output_queue' = put(child_output_queue, data)
    /\ pushed' = Append(pushed, data)
    /\ readerPc' = "top"
    /\ UNCHANGED <<childVars, objVars, data, callerVars, received, tokVars,
                   logVars, whichVars, sheetVars>>

---- (* isalive, lines 221-231 *)

\* isalive() without line 230: the exit is seen but terminated stays unset
isalive_unset_terminated(term, exitst, polled) ==
    IF term THEN <<FALSE, term, exitst>>
    ELSE IF polled = None THEN <<TRUE, term, exitst>>
    ELSE <<FALSE, term, polled>>

\* isalive() without lines 222-223: it polls even when terminated is set
isalive_repolls(term, exitst, polled) ==
    IF polled = None THEN <<TRUE, term, exitst>>
    ELSE <<FALSE, TRUE, polled>>

\* isalive() against the value popen.poll() returns now:
\* <<return value, terminated, exitstatus>>
isalive(term, exitst, polled) ==
    IF term THEN <<FALSE, term, exitst>>
    ELSE IF polled = None THEN <<TRUE, term, exitst>>
    ELSE <<FALSE, TRUE, polled>>

Probe == isalive(terminated, exitstatus, status)

\* the calling thread ends a call
Ends(how, value) ==
    /\ pc' = "idle"
    /\ outcome' = how
    /\ retval' = value

\* the calling thread enters method m
Enters(m) ==
    /\ pc = "idle"
    /\ op' = m

IsAlive ==
    /\ Enters("isalive")
    /\ terminated' = Probe[2]
    /\ exitstatus' = Probe[3]
    /\ Ends("return", IF Probe[1] THEN "True" ELSE "False")
    /\ UNCHANGED <<childVars, closed, child_fd, flag_eof, stdout_handle,
                   child_output_queue, readerVars, size, buf, pushed, received,
                   tokVars,
                   logVars, whichVars, sheetVars>>

\* the calling thread goes on to position p of the method it is in
Goes(p) ==
    /\ pc' = p
    /\ outcome' = "none"
    /\ retval' = "None"

\* a call of isalive() inside another method
Poll ==
    /\ terminated' = Probe[2]
    /\ exitstatus' = Probe[3]

---- (* read_nonblocking, lines 238-277 *)

\* a get that takes the newest chunk
get_newest(q) == <<q[Len(q)], SubSeq(q, 1, Len(q) - 1)>>

\* q.get: the oldest chunk, and the queue without it
get(q) == <<Head(q), Tail(q)>>

\* line 277: return s2
Returns(s) ==
    /\ received' = received \o s
    /\ Ends("return", "s")

\* lines 271, 274: with no sink attached s is returned at once, else it is
\* written to the sinks first
Leaves(s) ==
    IF logfile = "None" /\ logfile_read = "None"
    THEN Returns(s)
    ELSE Goes("log") /\ UNCHANGED received

\* lines 242-247 without the closed check of lines 239-240
ReadNonblocking_no_closed_check ==
    /\ Enters("read_nonblocking")
    /\ \E n \in 0..MaxSize : size' = n
    /\ buf' = <<>>
    /\ Poll
    /\ IF Probe[1]
       THEN Goes("get") /\ UNCHANGED flag_eof
       ELSE flag_eof' = TRUE /\ Ends("EOF", "None")
    /\ UNCHANGED <<childVars, closed, child_fd, stdout_handle,
                   child_output_queue, readerVars, pushed, received, tokVars,
                   logVars, whichVars, sheetVars>>

\* lines 239-247: the closed check and the first liveness check
ReadNonblocking ==
    /\ Enters("read_nonblocking")
    /\ \E n \in 0..MaxSize : size' = n
    /\ buf' = <<>>
    /\ IF closed THEN
           /\ Ends("ValueError", "None")
           /\ UNCHANGED <<terminated, exitstatus, flag_eof>>
       ELSE
           /\ Poll
           /\ IF Probe[1]
              THEN Goes("get") /\ UNCHANGED flag_eof
              ELSE flag_eof' = TRUE /\ Ends("EOF", "None")
    /\ UNCHANGED <<childVars, closed, child_fd, stdout_handle,
                   child_output_queue, readerVars, pushed, received, tokVars,
                   logVars, whichVars, sheetVars>>

\* line 253: q.get(True, timeout) returns the first chunk; lines 261, 270-277
ReadFirst ==
    /\ pc = "get"
    /\ child_output_queue # <<>>
    /\ buf' = get(child_output_queue)[1]
    /\ child_output_queue' = get(child_output_queue)[2]
    /\ IF Len(buf') < size
       THEN Goes("drain") /\ UNCHANGED received
       ELSE Leaves(buf')
    /\ UNCHANGED <<childVars, objVars, readerVars, op, size, pushed, tokVars,
                   logVars, whichVars, sheetVars>>

\* lines 253-254: the queue stayed empty until the timeout: Empty is raised
ReadExpires ==
    /\ pc = "get"
    /\ child_output_queue = <<>>
    /\ Goes("expired")
    /\ UNCHANGED <<childVars, objVars, child_output_queue, readerVars, op,
                   size, buf, pushed, received, tokVars,
                   logVars, whichVars, sheetVars>>

\* lines 255-259 without the liveness check: every expiry is a TIMEOUT
ReadReprobe_no_probe ==
    /\ pc = "expired"
    /\ Ends("TIMEOUT", "None")
    /\ UNCHANGED <<childVars, objVars, child_output_queue, readerVars, op,
                   size, buf, pushed, received, tokVars,
                   logVars, whichVars, sheetVars>>

\* lines 255-259: the liveness check after the timeout
ReadReprobe ==
    /\ pc = "expired"
    /\ Poll
    /\ IF Probe[1]
       THEN Ends("TIMEOUT", "None") /\ UNCHANGED flag_eof
       ELSE flag_eof' = TRUE /\ Ends("EOF", "None")
    /\ UNCHANGED <<childVars, closed, child_fd, stdout_handle,
                   child_output_queue, readerVars, op, size, buf, pushed,
                   received, tokVars,
                   logVars, whichVars, sheetVars>>

\* lines 262-268: one q.get_nowait() of the drain loop, then lines 270-277
\* when the loop breaks
ReadMore ==
    /\ pc = "drain"
    /\ IF child_output_queue = <<>> THEN
           /\ Leaves(buf)
           /\ UNCHANGED <<child_output_queue, buf>>
       ELSE
           /\ buf' = buf \o get(child_output_queue)[1]
           /\ child_output_queue' = get(child_output_queue)[2]
           /\ IF Len(buf') = size
              THEN Leaves(buf')
              ELSE Goes("drain") /\ UNCHANGED received
    /\ UNCHANGED <<childVars, objVars, readerVars, op, size, pushed, tokVars,
                   logVars, whichVars, sheetVars>>

\* lines 271-277: every write and flush succeeds, s2 is returned
ReadLogs ==
    /\ pc = "log"
    /\ Returns(buf)
    /\ UNCHANGED <<childVars, objVars, child_output_queue, readerVars, op,
                   size, buf, pushed, tokVars,
                   logVars, whichVars, sheetVars>>

\* lines 272-273, 275-276: write or flush of an attached sink raises; nothing
\* catches it, so it leaves read_nonblocking and the local s is dropped
ReadLogRaises ==
    /\ pc = "log"
    /\ Ends("IOError", "None")
    /\ UNCHANGED <<childVars, objVars, child_output_queue, readerVars, op,
                   size, buf, pushed, received, tokVars,
                   logVars, whichVars, sheetVars>>

---- (* kill, lines 233-236 *)

\* values of kill()'s sig argument: 0 as terminate() passes it (line 201),
\* SIGKILL, SIGTERM
Signals == {0, 9, 15}

\* kill(sig) finds the process dead: nothing to do
KillDeadWith(sig) ==
    /\ Enters("kill")
    /\ ~Probe[1]
    /\ Poll
    /\ Ends("return", "None")
    /\ UNCHANGED <<childVars, closed, child_fd, flag_eof, stdout_handle,
                   child_output_queue, readerVars, size, buf, pushed, received,
                   tokVars,
                   logVars, whichVars, sheetVars>>

KillDead == \E sig \in Signals : KillDeadWith(sig)

\* kill(sig) that treats sig = 0 as a probe and ends nothing
KillAliveWith_zero_probes(sig) ==
    /\ Enters("kill")
    /\ Probe[1]
    /\ IF sig = 0
       THEN UNCHANGED <<status, stdout_handle>>
       ELSE (\E e \in ExitStatuses : status' = e) /\ stdout_handle' = "None"
    /\ Ends("return", "None")
    /\ UNCHANGED <<output, unwritten, pipe, terminated, exitstatus, closed,
                   child_fd, flag_eof, child_output_queue, readerVars, size,
                   buf, pushed, received, tokVars,
                   logVars, whichVars, sheetVars>>

\* kill(sig): popen.kill() ends the process; the output handle is dropped
KillAliveWith(sig) ==
    /\ Enters("kill")
    /\ Probe[1]
    /\ \E e \in ExitStatuses : status' = e
    /\ stdout_handle' = "None"
    /\ Ends("return", "None")
    /\ UNCHANGED <<output, unwritten, pipe, terminated, exitstatus, closed,
                   child_fd, flag_eof, child_output_queue, readerVars, size,
                   buf, pushed, received, tokVars,
                   logVars, whichVars, sheetVars>>

KillAlive == \E sig \in Signals : KillAliveWith(sig)

\* kill(sig): popen.kill() raises: the exception leaves kill() before line 236
KillRaisesWith(sig) ==
    /\ Enters("kill")
    /\ Probe[1]
    /\ Ends("OSError", "None")
    /\ UNCHANGED <<childVars, objVars, child_output_queue, readerVars, size,
                   buf, pushed, received, tokVars,
                   logVars, whichVars, sheetVars>>

KillRaises == \E sig \in Signals : KillRaisesWith(sig)

---- (* terminate, lines 197-211, and close, lines 169-176 *)

\* what terminate() returns when kill(0) did not raise: the function ends
\* without a return statement
after_kill == "None"

\* terminate() returns v: to its caller, or to line 173 of close() when
\* the method being called is m = "close"
TerminateReturns(m, v) ==
    IF m = "close" THEN
        IF v = "True"
        THEN child_fd' = -1 /\ closed' = TRUE /\ Ends("return", "None")
        ELSE Ends("ExceptionPexpect", "None") /\ UNCHANGED <<child_fd, closed>>
    ELSE Ends("return", v) /\ UNCHANGED <<child_fd, closed>>

\* lines 198-199: terminate()'s first liveness check
TerminateBody(m) ==
    /\ Poll
    /\ IF Probe[1]
       THEN Goes("kill") /\ UNCHANGED <<child_fd, closed>>
       ELSE TerminateReturns(m, "True")
    /\ UNCHANGED <<childVars, flag_eof, stdout_handle, child_output_queue,
                   readerVars, size, buf, pushed, received, tokVars,
                   logVars, whichVars, sheetVars>>

Terminate ==
    /\ Enters("terminate")
    /\ TerminateBody("terminate")

\* line 201: kill(0) finds the process dead and does nothing
TerminateKillDead ==
    /\ pc = "kill"
    /\ ~Probe[1]
    /\ Poll
    /\ TerminateReturns(op, after_kill)
    /\ UNCHANGED <<childVars, flag_eof, stdout_handle, child_output_queue,
                   readerVars, op, size, buf, pushed, received, tokVars,
                   logVars, whichVars, sheetVars>>

\* line 201: kill(0) ends the process
TerminateKillAlive ==
    /\ pc = "kill"
    /\ Probe[1]
    /\ \E e \in ExitStatuses : status' = e
    /\ stdout_handle' = "None"
    /\ TerminateReturns(op, after_kill)
    /\ UNCHANGED <<output, unwritten, pipe, terminated, exitstatus, flag_eof,
                   child_output_queue, readerVars, op, size, buf, pushed,
                   received, tokVars,
                   logVars, whichVars, sheetVars>>

\* lines 201-207: popen.kill() raises; terminate() sleeps delayafterterminate
TerminateKillRaises ==
    /\ pc = "kill"
    /\ Probe[1]
    /\ Goes("reprobe")
    /\ UNCHANGED <<childVars, objVars, child_output_queue, readerVars, op,
                   size, buf, pushed, received, tokVars,
                   logVars, whichVars, sheetVars>>

\* lines 208-211: the liveness check after the sleep
TerminateReprobe ==
    /\ pc = "reprobe"
    /\ Poll
    /\ TerminateReturns(op, IF Probe[1] THEN "False" ELSE "True")
    /\ UNCHANGED <<childVars, flag_eof, stdout_handle, child_output_queue,
                   readerVars, op, size, buf, pushed, received, tokVars,
                   logVars, whichVars, sheetVars>>

\* close() without the test of line 170
Close_no_guard ==
    /\ Enters("close")
    /\ Goes("closing")
    /\ UNCHANGED <<childVars, objVars, child_output_queue, readerVars, size,
                   buf, pushed, received, tokVars,
                   logVars, whichVars, sheetVars>>

\* lines 170-171: a closed object is left alone; an open one sleeps
\* delayafterclose
Close ==
    /\ Enters("close")
    /\ IF closed THEN Ends("return", "None") ELSE Goes("closing")
    /\ UNCHANGED <<childVars, objVars, child_output_queue, readerVars, size,
                   buf, pushed, received, tokVars,
                   logVars, whichVars, sheetVars>>

\* lines 172, 175-176: the process is dead after the sleep
CloseDead ==
    /\ pc = "closing"
    /\ ~Probe[1]
    /\ Poll
    /\ child_fd' = -1
    /\ closed' = TRUE
    /\ Ends("return", "None")
    /\ UNCHANGED <<childVars, flag_eof, stdout_handle, child_output_queue,
                   readerVars, op, size, buf, pushed, received, tokVars,
                   logVars, whichVars, sheetVars>>

\* lines 172-173: the process is alive after the sleep: terminate(force)
CloseAlive ==
    /\ pc = "closing"
    /\ Probe[1]
    /\ Goes("terminate")
    /\ UNCHANGED <<childVars, objVars, child_output_queue, readerVars, op,
                   size, buf, pushed, received, tokVars,
                   logVars, whichVars, sheetVars>>

\* line 173: terminate(force) called by close()
CloseTerminate ==
    /\ pc = "terminate"
    /\ UNCHANGED op
    /\ TerminateBody("close")

---- (* wait, lines 213-219 *)

\* lines 214-216: wait() raises for a dead process, else blocks in popen.wait()
Wait ==
    /\ Enters("wait")
    /\ Poll
    /\ IF Probe[1] THEN Goes("wait") ELSE Ends("ExceptionPexpect", "None")
    /\ UNCHANGED <<childVars, closed, child_fd, flag_eof, stdout_handle,
                   child_output_queue, readerVars, size, buf, pushed, received,
                   tokVars,
                   logVars, whichVars, sheetVars>>

\* lines 216-219: popen.wait() returns the exit status
WaitReturns ==
    /\ pc = "wait"
    /\ status # None
    /\ exitstatus' = status
    /\ stdout_handle' = "None"
    /\ terminated' = TRUE
    /\ Ends("return", "exitstatus")
    /\ UNCHANGED <<childVars, closed, child_fd, flag_eof, child_output_queue,
                   readerVars, op, size, buf, pushed, received, tokVars,
                   logVars, whichVars, sheetVars>>

---- (* the specifications *)

Next ==
    \/ ChildWrite \/ ChildExit
    \/ ReaderTop \/ ReaderRead \/ ReaderEof \/ ReaderPut
    \/ IsAlive
    \/ ReadNonblocking \/ ReadFirst \/ ReadExpires \/ ReadReprobe \/ ReadMore
    \/ KillDead \/ KillAlive \/ KillRaises
    \/ Terminate \/ TerminateKillDead \/ TerminateKillAlive
    \/ TerminateKillRaises \/ TerminateReprobe
    \/ Close \/ CloseDead \/ CloseAlive \/ CloseTerminate
    \/ Wait \/ WaitReturns

\* one object driven through every method
Spec == Init /\ [][Next]_vars

\* the reader thread is scheduled: a step it can take is eventually taken
Reader == ReaderTop \/ ReaderRead \/ ReaderEof \/ ReaderPut

SpecLive == Init /\ [][Next]_vars /\ WF_vars(Reader)

NextRead ==
    \/ ChildWrite \/ ChildExit
    \/ ReaderTop \/ ReaderRead \/ ReaderEof \/ ReaderPut
    \/ ReadNonblocking \/ ReadFirst \/ ReadExpires \/ ReadReprobe \/ ReadMore

\* a caller that only calls read_nonblocking, again and again
SpecRead == Init /\ [][NextRead]_vars

\* the object is constructed with or without each log sink
InitLog ==
    /\ TokDone /\ WhichReturned /\ ProcInit /\ SheetUnrun
    /\ logfile \in {"None", "sink"}
    /\ logfile_read \in {"None", "sink"}

NextLog == NextRead \/ ReadLogs \/ ReadLogRaises

SpecLog == InitLog /\ [][NextLog]_vars

-----------------------------------------------------------------------------
(* Properties of winspawn *)

\* the bytes the call in progress has taken off the queue and not returned yet
InFlight == IF pc \in {"drain", "log"} THEN buf ELSE <<>>

\* C1: a caller that only calls read_nonblocking has received the child's
\* whole output, in order, when a read first fails with EOF.
C1_WholeOutputBeforeEndOfFile ==
    (op = "read_nonblocking" /\ outcome = "EOF") => received = output

C3_CloseFailsOnlyWhenTerminateFailed ==
    [][(op = "close" /\ ~closed /\ pc # "idle" /\ pc' = "idle") =>
         IF pc = "reprobe" /\ Probe[1]
         THEN outcome' = "ExceptionPexpect"
         ELSE outcome' = "return" /\ child_fd' = -1 /\ closed']_vars

\* C4: terminate() returns False only at the liveness check after the grace
\* sleep when the process is still alive; every other way it ends (already
\* dead, kill did not raise, dead at the re-check), it returns True.
C4_TerminateReportsSuccess ==
    [][(op' = "terminate" /\ pc' = "idle"
            /\ (Terminate \/ TerminateKillDead \/ TerminateKillAlive
                    \/ TerminateReprobe)) =>
         /\ outcome' = "return"
         /\ retval' = IF pc = "reprobe" /\ Probe[1] THEN "False" ELSE "True"]_vars

\* C9: read_nonblocking on an open object whose child has exited raises EOF
\* in its first step, without touching the queue, and leaves terminated set
\* and the exit status recorded; TIMEOUT is never raised when the child has
\* exited.
C9_ExitedChildReadsEndOfFile ==
    [][/\ (ReadNonblocking /\ ~closed /\ status # None) =>
            /\ outcome' = "EOF" /\ pc' = "idle"
            /\ terminated'
            /\ exitstatus' = (IF terminated THEN exitstatus ELSE status)
            /\ exitstatus' # None
            /\ child_output_queue' = child_output_queue
            /\ received' = received
       /\ (outcome # "TIMEOUT" /\ outcome' = "TIMEOUT") => status = None]_vars

\* a read has just failed with EOF while the child's byte was still queued
C9_Witness ==
    /\ op = "read_nonblocking" /\ outcome = "EOF" /\ pc = "idle"
    /\ ~closed /\ terminated /\ exitstatus = status /\ status # None
    /\ child_output_queue # <<>>

\* C10: TIMEOUT is raised exactly when the queue was empty when the wait
\* expired and the liveness check that follows finds the child alive; raising
\* it changes neither the queue, closed, terminated nor the exit status, and
\* leaves the object readable: the next read_nonblocking of a live child
\* waits on the queue again and takes the chunk that has arrived.
C10_TimeoutIsRetryable ==
    [][/\ (pc = "get" /\ pc' = "expired") =>
            child_output_queue = <<>> /\ child_output_queue' = <<>>
       /\ (pc = "expired" /\ pc' # "expired") =>
            /\ pc' = "idle"
            /\ (outcome' = "TIMEOUT") <=> (status = None)
       /\ (outcome # "TIMEOUT" /\ outcome' = "TIMEOUT") =>
            /\ pc = "expired" /\ op = "read_nonblocking"
            /\ UNCHANGED <<child_output_queue, closed, terminated, exitstatus>>
            /\ ~closed' /\ ~terminated' /\ exitstatus' = None
       /\ (outcome = "TIMEOUT" /\ status = None /\ ReadNonblocking) => pc' = "get"
       /\ (outcome = "TIMEOUT" /\ pc = "idle") => ~closed /\ ~terminated
       /\ (pc = "get" /\ child_output_queue # <<>> /\ pc' # "get") =>
            buf' = Head(child_output_queue)]_vars

\* a read has failed with TIMEOUT, the child is still alive and a chunk has
\* arrived since: the next read_nonblocking finds it in the queue
C10_Witness ==
    /\ op = "read_nonblocking" /\ outcome = "TIMEOUT" /\ pc = "idle"
    /\ status = None
    /\ child_output_queue = <<<<1>>>>
    /\ received = <<>>


\* C11: once the object is closed, every read_nonblocking call raises
\* ValueError at once, whatever the state of the process: it returns no data,
\* raises no EOF, probes nothing and takes nothing from the queue; no read
\* is in progress while the object is closed, and from then on nothing is
\* returned and the queue only grows.
C11_ReadAfterCloseIsRefused ==
    [][/\ (ReadNonblocking /\ closed) =>
            /\ outcome' = "ValueError" /\ pc' = "idle"
            /\ UNCHANGED <<child_output_queue, received, terminated,
                           exitstatus, flag_eof>>
       /\ closed' => pc' \notin {"get", "expired", "drain"}
       /\ closed =>
            /\ received' = received
            /\ Len(child_output_queue') >= Len(child_output_queue)
            /\ SubSeq(child_output_queue', 1, Len(child_output_queue))
                   = child_output_queue]_vars

\* a read was refused on a closed object with a chunk still queued
C11_Witness ==
    /\ closed
    /\ op = "read_nonblocking" /\ outcome = "ValueError" /\ pc = "idle"
    /\ child_output_queue # <<>>

\* C12: wait() raises only when terminated was already set before the call;
\* otherwise, also for a child that has exited unobserved, it returns after
\* recording the exit status, dropping the output handle and setting
\* terminated.
C12_WaitFailsOnlyWhenKnownDead ==
    [][/\ Wait => ((outcome' = "ExceptionPexpect") <=> terminated)
       /\ (Wait /\ ~terminated /\ status # None) =>
            /\ exitstatus' = status
            /\ stdout_handle' = "None"
            /\ terminated'
       /\ WaitReturns =>
            /\ outcome' = "return"
            /\ exitstatus' = status /\ stdout_handle' = "None" /\ terminated']_vars

\* C13: terminated only goes from false to true and the exit status is
\* written once, together with it; once terminated is set, isalive() returns
\* False whatever a poll would report, and the exit status stays.
C13_ExitStatusWrittenOnce ==
    [][/\ terminated => terminated'
       /\ exitstatus # None => exitstatus' = exitstatus
       /\ exitstatus' # exitstatus => (~terminated /\ terminated' /\ exitstatus' = status)
       /\ terminated' <=> exitstatus' # None
       /\ (IsAlive /\ terminated) => retval' = "False"
       /\ terminated =>
            \A polled \in ExitStatuses \cup {None} :
                isalive(terminated, exitstatus, polled) = <<FALSE, TRUE, exitstatus>>]_vars

\* isalive() has answered False on a closed object: close() had already
\* found the process dead and set terminated, and the exit status is the
\* one recorded then
C13_Witness ==
    /\ closed /\ terminated /\ exitstatus = status
    /\ op = "isalive" /\ outcome = "return" /\ retval = "False"

\* C14: a read that has dequeued bytes returns them to the caller whether
\* or not writing them to an attached log sink succeeds: the step that ends
\* the logging ends the call with a return of exactly the dequeued bytes.
C14_LogFailureDoesNotFailRead ==
    [][(pc = "log" /\ pc' # "log") =>
           /\ outcome' = "return"
           /\ received' = received \o buf]_vars

\* C15: closed is never cleared; close() on a closed object returns at once
\* and changes nothing of the object, the process, the queue or the reader;
\* closed becomes set only in a step of close() that leaves the process
\* known dead, with child_fd = -1.
C15_CloseIsIdempotent ==
    [][/\ closed => closed'
       /\ (Close /\ closed) =>
            /\ pc' = "idle" /\ outcome' = "return"
            /\ UNCHANGED <<childVars, objVars, child_output_queue, readerVars,
                           pushed, received>>
       /\ (closed /\ op' = "close") => pc' = "idle"
       /\ (~closed /\ closed') =>
            /\ op = "close" /\ outcome' = "return"
            /\ child_fd' = -1
            /\ terminated' /\ status # None]_vars

\* close() has returned on an object closed with its child dead
C15_Witness ==
    /\ closed /\ child_fd = -1 /\ terminated
    /\ op = "close" /\ outcome = "return" /\ pc = "idle"


\* C16: kill(sig) on a process that has exited ends with the process, the
\* output handle, the pipe, the queue and the reader as they were, so the
\* reader can still forward what the child wrote; on a live process it ends
\* the process and drops the handle; this is so for every value of sig.
C16_KillOfExitedProcessIsNoOp ==
    [][/\ \A sig \in Signals :
            /\ KillDeadWith(sig) =>
                 /\ status # None /\ outcome' = "return"
                 /\ UNCHANGED <<childVars, stdout_handle, child_output_queue,
                                readerVars, closed, pushed, received>>
            /\ KillAliveWith(sig) =>
                 /\ status = None /\ status' # None
                 /\ stdout_handle' = "None"
                 /\ outcome' = "return"
       /\ (pc = "idle" /\ op' = "kill" /\ status # None) =>
            UNCHANGED <<status, stdout_handle>>]_vars

\* kill() has returned on a child that had exited with a byte still in the
\* pipe: the handle is kept and the reader is about to read the byte
C16_Witness ==
    /\ op = "kill" /\ outcome = "return" /\ pc = "idle"
    /\ terminated /\ exitstatus = status
    /\ stdout_handle = "handle"
    /\ pipe # <<>> /\ readerPc = "read"

\* the larger of two numbers
Max(a, b) == IF a >= b THEN a ELSE b

\* C18: once q.get has returned a first chunk, read_nonblocking never waits:
\* it appends the oldest queued chunk at each step, stops as soon as it has
\* size bytes or finds the queue empty, and returns what it took, in order:
\* at least 1 and at most max(size, 1) bytes, and fewer than size only when
\* the queue was empty.
C18_ReadReturnsQueuedBytes ==
    [][/\ ReadFirst =>
            /\ buf' = Head(child_output_queue)
            /\ child_output_queue' = Tail(child_output_queue)
            /\ (outcome' = "return") <=> (Len(buf') >= size)
       /\ ReadMore =>
            /\ IF child_output_queue = <<>>
               THEN buf' = buf /\ child_output_queue' = <<>>
               ELSE /\ buf' = buf \o Head(child_output_queue)
                    /\ child_output_queue' = Tail(child_output_queue)
            /\ (outcome' = "return") <=>
                   (child_output_queue = <<>> \/ Len(buf') = size)
       /\ (pc \in {"get", "drain"} /\ outcome' = "return") =>
            /\ received' = received \o buf'
            /\ Len(buf') >= 1
            /\ Len(buf') <= Max(size, 1)
            /\ Len(buf') < size => child_output_queue' = <<>>
       /\ pc = "drain" => ENABLED ReadMore]_vars

\* a read of size 2 has returned both bytes the reader had queued
C18_Witness ==
    /\ op = "read_nonblocking" /\ outcome = "return" /\ pc = "idle"
    /\ size = 2 /\ buf = <<1, 2>> /\ received = <<1, 2>>

\* C19: the reader stops exactly at a zero-length read or at the error a
\* dropped handle raises, also when kill() or wait() dropped the handle while
\* it was running; once stopped it stays stopped and nothing more is pushed;
\* it is never anywhere but in its loop or stopped; and, the reader being
\* scheduled, it stops after the child has exited.
C19_ReaderStopsForGood ==
    /\ [][/\ readerPc = "done" =>
               /\ readerPc' = "done"
               /\ pushed' = pushed
               /\ Len(child_output_queue') <= Len(child_output_queue)
          /\ (readerPc # "done" /\ readerPc' = "done") =>
               \/ readerPc = "read" /\ pipe = <<>> /\ status # None
               \/ readerPc = "top" /\ stdout_handle = "None"
          /\ (readerPc = "top" /\ stdout_handle = "None" /\ readerPc' # "top") =>
               readerPc' = "done"
          /\ pushed' # pushed => readerPc = "put"
          /\ readerPc' \in {"top", "read", "put", "done"}]_vars
    /\ (status # None) ~> (readerPc = "done")

\* kill() dropped the handle while the reader was running: the reader has
\* stopped with a byte left unread in the pipe
C19_Witness ==
    /\ readerPc = "done"
    /\ stdout_handle = "None"
    /\ pipe # <<>>

-----------------------------------------------------------------------------
(* which, src/repl/winpexpect.py:85-94 *)

MaxPath == 2     \* most entries of Path
MaxExt == 2      \* most entries of Pathext
MaxFiles == 2    \* most executable files

\* directory names; '' is what an empty Path, or an empty entry of it, gives
Dirs == {"", "x", "y"}

\* extensions; '' is what an empty Pathext gives
Exts == {"", ".exe"}

\* itertools.chain([''], seq) with the empty string put last
chain_empty_last(seq) == seq \o <<"">>

\* itertools.chain([''], seq)
chain(seq) == <<"">> \o seq

\* os.path.join(d, command) + e for the one command looked up: the file in
\* directory d ('' is the current one) named command + e
join(d, e) == <<d, e>>

\* the loops go on: the next extension, or the next directory with the
\* first extension
advance(d, e) == IF e < Len(pathext) THEN <<d, e + 1>> ELSE <<d + 1, 0>>

\* str.split never returns an empty list, so both lists have an entry
WhichInit ==
    /\ path \in Strings(Dirs, MaxPath) \ {<<>>}
    /\ pathext \in Strings(Exts, MaxExt) \ {<<>>}
    /\ executable \in {fs \in SUBSET (Dirs \X Exts) : Cardinality(fs) <= MaxFiles}
    /\ dir = 0 /\ ext = 0 /\ probed = <<>> /\ fname = <<"", "">>
    /\ whichOut = "running"
    /\ TokDone /\ Unspawned /\ NoLogs /\ SheetUnrun

\* lines 90-94: one pass of the inner loop body, and the return None after
\* the last
WhichProbe ==
    /\ whichOut = "running"
    /\ fname' = join(chain(path)[dir + 1], chain(pathext)[ext + 1])
    /\ probed' = Append(probed, fname')
    /\ IF fname' \in executable THEN
           /\ whichOut' = "found"
           /\ UNCHANGED <<dir, ext>>
       ELSE
           /\ dir' = advance(dir, ext)[1]
           /\ ext' = advance(dir, ext)[2]
           /\ whichOut' = IF dir' > Len(path) THEN "None" ELSE "running"
    /\ UNCHANGED <<path, pathext, executable, tokVars, procVars, logVars,
                   sheetVars>>

SpecWhich == WhichInit /\ [][WhichProbe]_vars

\* C17: which asks about the candidates in the order: directory '' first,
\* then each directory of path in list order, and in each directory the bare
\* name, then the name with each extension of pathext in list order; it
\* returns the first candidate that is executable, and None exactly when no
\* candidate is.
C17_WhichReturnsFirstExecutable ==
    LET ds == <<"">> \o path
        es == <<"">> \o pathext
        n == Len(ds) * Len(es)
        cand(k) == <<ds[((k - 1) \div Len(es)) + 1], es[((k - 1) % Len(es)) + 1]>>
    IN /\ Len(probed) <= n
       /\ \A k \in 1..Len(probed) : probed[k] = cand(k)
       /\ \A k \in 1..(Len(probed) - 1) : probed[k] \notin executable
       /\ whichOut = "running" =>
            \A k \in 1..Len(probed) : probed[k] \notin executable
       /\ whichOut = "found" =>
            /\ probed # <<>>
            /\ fname = probed[Len(probed)]
            /\ fname \in executable
       /\ whichOut = "None" =>
            /\ Len(probed) = n
            /\ \A k \in 1..n : cand(k) \notin executable
       /\ whichOut \in {"running", "found", "None"}

\* with path x, y and the extension .exe, and the only executable being
\* y's file with .exe, that file is returned after five other probes
C17_Witness ==
    /\ path = <<"x", "y">> /\ pathext = <<".exe">>
    /\ executable = {<<"y", ".exe">>}
    /\ whichOut = "found" /\ fname = <<"y", ".exe">>
    /\ Len(probed) = 6

-----------------------------------------------------------------------------
(* One run of WorksheetEvalCommand, src/worksheet.py *)

MaxView == 3     \* most characters of the view before the run

NL == "\n"

\* the characters of a view; results are made of "r" and newlines
ViewChars == {"a", NL}

\* str(thread.result) of a finished ReplThread: nothing, one line, a line
\* without its newline, two lines
Texts == {<<>>, <<"r", NL>>, <<"r">>, <<"r", NL, "r", NL>>}

\* split_command_line has not been called
TokUnrun ==
    /\ cmdline = <<>> /\ argv = <<>> /\ joined = FALSE /\ pos = 1
    /\ state = state0 /\ result = <<>> /\ splitOut = "running"

\* the point where the line holding point p begins
line_begin(v, p) ==
    CHOOSE a \in 0..p :
        /\ a = 0 \/ v[a] = NL
        /\ \A q \in (a + 1)..p : v[q] # NL

\* view.line(p): the line holding point p, without its newline
line(v, p) ==
    <<line_begin(v, p),
      CHOOSE b \in p..Len(v) :
          /\ b = Len(v) \/ v[b + 1] = NL
          /\ \A q \in (p + 1)..b : v[q] # NL>>

\* view.full_line(p): the line holding point p, with its newline when it
\* has one
full_line(v, p) ==
    <<line_begin(v, p),
      IF line(v, p)[2] < Len(v) THEN line(v, p)[2] + 1 ELSE Len(v)>>

\* view.substr(region)
substr(v, region) == SubSeq(v, region[1] + 1, region[2])

\* view.insert(edit, point, text)
insert(v, point, text) ==
    SubSeq(v, 1, point) \o text \o SubSeq(v, point + 1, Len(v))

\* lines 122-125: a last line that is not blank gets a newline
ensure_trailing_newline(v) ==
    IF \E i \in 1..Len(substr(v, line(v, Len(v)))) :
           substr(v, line(v, Len(v)))[i] # NL
    THEN insert(v, Len(v), <<NL>>)
    ELSE v

\* lines 174-180: cleanup(); reading self.repl raises AttributeError when no
\* REPL was ever assigned; ReplCloseError is reported and caught
cleanup(r) ==
    /\ view_status' = ""
    /\ cleanups' = cleanups + 1
    /\ timer' = <<>>
    /\ IF r = "unset"
       THEN repl' = r /\ sheetPc' = "AttributeError"
       ELSE /\ \E closes \in BOOLEAN : repl' = IF closes THEN "closed" ELSE r
            /\ sheetPc' = "done"
    /\ UNCHANGED threads

\* lines 127-138: process_line(start) on view v with self.repl being r
process_line(v, r, start) ==
    IF \E i \in 1..Len(substr(v, full_line(v, start))) :
           substr(v, full_line(v, start))[i] = NL
    THEN /\ view_status' = "Sending"
         /\ repl' = r
         /\ UNCHANGED cleanups
         /\ IF r = "unset" THEN
                /\ sheetPc' = "AttributeError"
                /\ timer' = <<>>
                /\ UNCHANGED threads
            ELSE
                /\ threads' = Append(threads,
                                  [line |-> full_line(v, start), is_alive |-> TRUE,
                                   result |-> <<>>, terminates |-> FALSE])
                /\ timer' = <<Len(threads) + 1, full_line(v, start)[2]>>
                /\ sheetPc' = "running"
    ELSE cleanup(r)

\* a view without result lines, on which no command has run yet
SheetInit ==
    /\ view \in Strings(ViewChars, MaxView)
    /\ repl = "unset" /\ threads = <<>> /\ timer = <<>>
    /\ view_status = "" /\ sheetPc = "unrun" /\ inserted = 0 /\ cleanups = 0
    /\ TokUnrun /\ WhichUnrun /\ Unspawned /\ NoLogs

\* lines 183-187 and 91-105: WorksheetEvalCommand.run; when get_repl raises
\* ReplStartError, WorksheetCommand.run returns after the error message and
\* WorksheetEvalCommand.run goes on
Run ==
    /\ sheetPc = "unrun"
    /\ view' = ensure_trailing_newline(view)
    /\ \E starts \in BOOLEAN :
           process_line(view', IF starts THEN "open" ELSE repl, 0)
    /\ UNCHANGED <<inserted, tokVars, procVars, logVars, whichVars>>

\* ReplThread.run ends: the thread is no longer alive and has a result
ThreadFinishes ==
    /\ \E k \in 1..Len(threads) :
           /\ threads[k].is_alive
           /\ \E text \in Texts, terminates \in BOOLEAN :
                  threads' = [threads EXCEPT ![k] =
                                 [line |-> @.line, is_alive |-> FALSE,
                                  result |-> text, terminates |-> terminates]]
    /\ UNCHANGED <<view, repl, timer, view_status, sheetPc, inserted,
                   cleanups, tokVars, procVars, logVars, whichVars>>

\* lines 147-149, 153-155: the timer fires on a thread still alive
handle_running_thread ==
    /\ timer # <<>>
    /\ threads[timer[1]].is_alive
    /\ view_status' = "Waiting"
    /\ UNCHANGED <<view, repl, threads, timer, sheetPc, inserted, cleanups,
                   tokVars, procVars, logVars, whichVars>>

\* lines 147-151, 157-165: the timer fires on a finished thread
handle_finished_thread ==
    /\ timer # <<>>
    /\ ~threads[timer[1]].is_alive
    /\ view' = insert(view, timer[2], threads[timer[1]].result)
    /\ inserted' = inserted + 1
    /\ IF ~threads[timer[1]].terminates
       THEN process_line(view', repl, timer[2] + Len(threads[timer[1]].result))
       ELSE cleanup(repl)
    /\ UNCHANGED <<tokVars, procVars, logVars, whichVars>>

SheetNext ==
    \/ Run
    \/ ThreadFinishes
    \/ handle_running_thread
    \/ handle_finished_thread

\* the timer calls what set_timeout was given
handle_thread == handle_running_thread \/ handle_finished_thread

\* one run, in which every timer fires and every ReplThread finishes
SpecSheet ==
    /\ SheetInit /\ [][SheetNext]_vars
    /\ WF_vars(handle_thread)
    /\ WF_vars(ThreadFinishes)

\* the ReplThreads that are alive
Outstanding == {k \in 1..Len(threads) : threads[k].is_alive}

\* C20: in a run of WorksheetEvalCommand at most one ReplThread is alive; the
\* lines sent lie in the buffer in the order they were sent; a ReplThread is
\* created only when every earlier one has finished and its result has been
\* inserted; cleanup is called at most once, after it no thread is created
\* and none is waited for; and the run leads to cleanup having been called.
C20_OneLineAtATimeThenCleanup ==
    /\ [](/\ Cardinality(Outstanding) <= 1
          /\ Len(threads) - inserted \in {0, 1}
          /\ \A k \in 2..Len(threads) :
                 threads[k].line[1] >= threads[k - 1].line[2]
          /\ cleanups <= 1
          /\ cleanups = 1 => timer = <<>> /\ Outstanding = {})
    /\ [][/\ Len(threads') > Len(threads) =>
               /\ Outstanding = {}
               /\ inserted' = Len(threads)
               /\ cleanups' = 0
          /\ cleanups = 1 => threads' = threads /\ cleanups' = 1]_vars
    /\ (sheetPc # "unrun") ~> (cleanups = 1)

-----------------------------------------------------------------------------
(* Running split_command_line *)

TokInit ==
    /\ \/ /\ joined = FALSE
          /\ argv = <<>>
          /\ cmdline \in Strings(CmdChars, MaxLen)
       \/ /\ joined = TRUE
          /\ argv \in Vectors(MaxLen)
          /\ cmdline = join_command_line(argv)
    /\ pos = 1
    /\ state = state0
    /\ result = <<>>
    /\ splitOut = "running"
    /\ Unspawned /\ NoLogs /\ WhichUnrun /\ SheetUnrun

\* lines 33-77: one iteration on a character of cmdline
SplitChar ==
    /\ splitOut = "running"
    /\ pos <= Len(cmdline)
    /\ LET next == Iterate(state, result, cmdline[pos])
       IN /\ state' = next[1]
          /\ result' = next[2]
    /\ pos' = pos + 1
    /\ UNCHANGED <<cmdline, argv, joined, splitOut, procVars, logVars, whichVars,
                   sheetVars>>

\* lines 33-80: the last iteration, on the end marker, then the check and
\* the return
SplitEnd ==
    /\ splitOut = "running"
    /\ pos = Len(cmdline) + 1
    /\ LET next == Iterate(state, result, EOI)
       IN /\ state' = next[1]
          /\ result' = next[2]
          /\ splitOut' = IF next[1].current # s_free THEN "ValueError" ELSE "returned"
    /\ pos' = pos + 1
    /\ UNCHANGED <<cmdline, argv, joined, procVars, logVars, whichVars,
                   sheetVars>>

TokNext == SplitChar \/ SplitEnd

SpecTok == TokInit /\ [][TokNext]_vars

-----------------------------------------------------------------------------
(* Properties of split_command_line and join_command_line *)

\* the number of consecutive backslashes of s that end right before index p
RECURSIVE RunBefore(_, _)
RunBefore(s, p) ==
    IF p > 1 /\ s[p - 1] = BACKSLASH THEN 1 + RunBefore(s, p - 1) ELSE 0

\* the length of the longest run of non-whitespace characters of s that ends
\* right before index p
RECURSIVE TokenBefore(_, _)
TokenBefore(s, p) ==
    IF p > 1 /\ s[p - 1] \notin {SPACE, TAB} THEN 1 + TokenBefore(s, p - 1) ELSE 0

\* C5: split_command_line(join_command_line(v)) returns, and returns v, for
\* every argument vector v.
C5_RoundTrip ==
    (joined /\ splitOut # "running") => (splitOut = "returned" /\ result = argv)

\* C6: the split raises ValueError exactly when the end of input is reached
\* inside a quoted section or with a backslash run pending, and when it
\* returns, the argument being accumulated is not discarded.
C6_ErrorExactlyWhenUnterminated ==
    [][(splitOut = "running" /\ splitOut' # "running") =>
         /\ (splitOut' = "ValueError") <=> (state.current \in {s_in_quotes, s_in_escape})
         /\ (splitOut' = "returned" /\ state.argument # <<>>) =>
                result' = Append(result, Concat(state.argument))]_vars

\* C7: an empty-string argument is emitted only for an argument written
\* solely with quote characters: whenever the split appends '' to result,
\* the run of non-whitespace characters just read is non-empty and all quotes.
C7_EmptyArgOnlyFromQuotes ==
    [][(Len(result') = Len(result) + 1 /\ result'[Len(result')] = <<>>) =>
         LET n == TokenBefore(cmdline, pos)
         IN /\ n > 0
            /\ \A i \in (pos - n)..(pos - 1) : cmdline[i] = QUOTE]_vars

\* C8: a run of n backslashes followed by a double quote adds floor(n/2)
\* backslashes to the argument; for odd n it also adds a quote and the
\* quoting mode returns to the mode before the run, for even n it adds no
\* quote and the mode becomes the opposite of the mode before the run.
C8_BackslashRunBeforeQuote ==
    [][(splitOut = "running" /\ pos <= Len(cmdline) /\ cmdline[pos] = QUOTE
            /\ state.current = s_in_escape /\ pos' = pos + 1) =>
         LET n == RunBefore(cmdline, pos)
             before == state.previous
         IN /\ n >= 1
            /\ before \in {s_free, s_in_quotes}
            /\ Concat(state'.argument) =
                 Concat(state.argument) \o Backslashes(n \div 2)
                     \o (IF n % 2 = 1 THEN <<QUOTE>> ELSE <<>>)
            /\ state'.current =
                 IF n % 2 = 1 THEN before
                 ELSE IF before = s_free THEN s_in_quotes ELSE s_free
            /\ result' = result]_vars

\* three backslashes and a quote inside a quoted section have been read: the
\* argument holds one backslash and the quote, and the section is still open
C8_Witness ==
    /\ splitOut = "running"
    /\ pos = 6
    /\ cmdline[1] = QUOTE
    /\ cmdline[5] = QUOTE
    /\ RunBefore(cmdline, 5) = 3
    /\ state.current = s_in_quotes
    /\ Concat(state.argument) = <<BACKSLASH, QUOTE>>

=============================================================================
